---------------------------- MODULE Spec2Model ----------------------------
(***************************************************************************)
(* A model of the gemini_multi_agent_Ver chat service: the History Store   *)
(* (core/context_manager.py), the Content Guardrail                        *)
(* (agents/guardrail_agent.py), the Action Policy (agents/action_agent.py),*)
(* the retrying completion-service call (core/api_handler.py) and the turn *)
(* orchestrator (main.py, chat).                                           *)
(*                                                                         *)
(* Python strings are TLA+ strings; str.lower, str.strip, str.split and    *)
(* the `in` substring test are computed character by character.            *)
(***************************************************************************)
EXTENDS Integers, Sequences, FiniteSets, TLC

(***************************************************************************)
(* Python values and string operations                                     *)
(***************************************************************************)

\* Python's None. No text of the model equals this value.
None == "<None>"

\* bool(v) for a str or None: None and the empty string are falsy.
Truthy(v) == v # None /\ v # ""

\* Python's `a or b`: a when a is truthy, otherwise b.
PyOr(a, b) == IF Truthy(a) THEN a ELSE b

\* dict.get(key): the value, or None when the key is missing.
Get(d, key) == IF key \in DOMAIN d THEN d[key] ELSE None

\* str(v) inside an f-string.
PyStr(v) == IF v = None THEN "None" ELSE v

Min(a, b) == IF a <= b THEN a ELSE b

UpperLetters == "ABCDEFGHIJKLMNOPQRSTUVWXYZ"
LowerLetters == "abcdefghijklmnopqrstuvwxyz"

\* The i-th letter of each case.
UpperLetter(i) == SubSeq(UpperLetters, i, i)
LowerLetter(i) == SubSeq(LowerLetters, i, i)

\* The lower-case letter of each upper-case letter, and the reverse.
ToLower ==
    [c \in {UpperLetter(i) : i \in 1..26} |->
        LowerLetter(CHOOSE i \in 1..26 : UpperLetter(i) = c)]
ToUpper ==
    [c \in {LowerLetter(i) : i \in 1..26} |->
        UpperLetter(CHOOSE i \in 1..26 : LowerLetter(i) = c)]

\* str.lower on one character.
LowerChar(c) == IF c \in DOMAIN ToLower THEN ToLower[c] ELSE c

\* str.upper on one character (used to build inputs in other letter cases).
UpperChar(c) == IF c \in DOMAIN ToUpper THEN ToUpper[c] ELSE c

RECURSIVE Lower(_)
\* s.lower(), for texts whose letters are the 26 of ASCII.
Lower(s) ==
    IF s = "" THEN ""
    ELSE LowerChar(SubSeq(s, 1, 1)) \o Lower(SubSeq(s, 2, Len(s)))

RECURSIVE Upper(_)
\* s.upper()
Upper(s) ==
    IF s = "" THEN ""
    ELSE UpperChar(SubSeq(s, 1, 1)) \o Upper(SubSeq(s, 2, Len(s)))

\* `needle in hay` for two strings.
Contains(needle, hay) ==
    \E i \in 1..(Len(hay) - Len(needle) + 1) :
        SubSeq(hay, i, i + Len(needle) - 1) = needle

\* s[:n]
Prefix(s, n) == SubSeq(s, 1, Min(n, Len(s)))

RECURSIVE LStrip(_)
LStrip(s) ==
    IF s # "" /\ SubSeq(s, 1, 1) = " " THEN LStrip(SubSeq(s, 2, Len(s))) ELSE s

RECURSIVE RStrip(_)
RStrip(s) ==
    IF s # "" /\ SubSeq(s, Len(s), Len(s)) = " "
    THEN RStrip(SubSeq(s, 1, Len(s) - 1)) ELSE s

\* s.strip(), for texts whose only whitespace is the space.
Strip(s) == RStrip(LStrip(s))

\* s.split(marker, 1)[1], for a marker that s contains: the text after the
\* first occurrence of the marker.
AfterFirst(s, marker) ==
    LET i == CHOOSE j \in 1..(Len(s) - Len(marker) + 1) :
                 /\ SubSeq(s, j, j + Len(marker) - 1) = marker
                 /\ \A k \in 1..(j - 1) : SubSeq(s, k, k + Len(marker) - 1) # marker
    IN  SubSeq(s, i + Len(marker), Len(s))

\* s.rsplit(marker, 1)[1], for a marker that s contains: the text after the
\* last occurrence of the marker.
AfterLast(s, marker) ==
    LET i == CHOOSE j \in 1..(Len(s) - Len(marker) + 1) :
                 /\ SubSeq(s, j, j + Len(marker) - 1) = marker
                 /\ \A k \in (j + 1)..(Len(s) - Len(marker) + 1) :
                        SubSeq(s, k, k + Len(marker) - 1) # marker
    IN  SubSeq(s, i + Len(marker), Len(s))


(***************************************************************************)
(* State                                                                   *)
(***************************************************************************)

VARIABLES
    \* ContextManager (core/context_manager.py)
    max_history_turns,      \* self.max_history_turns
    conversation_history,   \* self.conversation_history: sequence of entries
    history_file,           \* what the file at self.history_file holds
    \* bookkeeping of the store operations performed so far
    last_op,                \* the store operation that completed last
    last_save,              \* how the last _save_history went
    adds,                   \* add_message calls completed since construction
    ops,                    \* store operations performed (bounded by MaxOps)
    from_empty,             \* the store has been empty at some point
    log,                    \* entries appended since the store was last empty
    threads,                \* the add_message and clear_history calls that
                            \* run at the same time: where each one is and
                            \* what it holds in its locals
    \* the Action Policy's request and verdict (locals of chat)
    action_data,            \* action_data: the action request
    validation,             \* what validate_action did with it
    \* the chat handler (main.py) and the guardrail scan it starts with
    pc,                     \* where the handler is: idle, guard, analyze,
                            \* respond (each inside a completion-service
                            \* call), done; derive: determine_action is
                            \* about to be called on its own; import, main,
                            \* crashed: where the starting process is
    attempt,                \* the i of the retry loop of _call_gemini_model
    turns,                  \* turns received so far (bounded by MaxTurns)
    user_input_text,        \* user_input_text / text_input
    uploaded_file,          \* uploaded_file
    llm_history,            \* llm_history
    is_input_safe,          \* is_input_safe
    guardrail_message,      \* guardrail_message
    context_summary,        \* context_summary
    gemini_response,        \* gemini_response
    action_message,         \* action_message
    result,                 \* what the handler returned to the caller
    \* what the current turn has done so far
    calls,                  \* the agent and store methods called, in order
    guard_call,             \* how the completion-service call of the
                            \* guardrail scan ended (none: not ended)
    validated,              \* the requests given to validate_action
    executed,               \* the requests given to execute_action
    appended,               \* the entries given to add_message
    audit                   \* the records written by _log_blocked_content

store_vars == <<max_history_turns, conversation_history, history_file>>
store_trace == <<last_op, adds, ops, from_empty, log, threads>>
store_book == <<last_save, store_trace>>
policy_vars == <<action_data, validation>>
control_vars == <<pc, attempt, turns, result>>
turn_locals == <<user_input_text, uploaded_file, llm_history, is_input_safe,
                 guardrail_message, context_summary, gemini_response,
                 action_message>>
turn_book == <<calls, guard_call, validated, executed, appended, audit>>
chat_vars == <<control_vars, turn_locals, turn_book>>
vars == <<store_vars, store_book, policy_vars, chat_vars>>

(***************************************************************************)
(* History Store: core/context_manager.py                                  *)
(***************************************************************************)

\* {'role': role, 'content': content}
Entry(role, content) == [role |-> role, content |-> content]

\* The file at history_file: absent, a JSON array (data: its items), or
\* bytes that are no JSON document (an empty file is one).
FileAbsent == [kind |-> "absent", data |-> <<>>]
FileJson(entries) == [kind |-> "json", data |-> entries]
FileCorrupt == [kind |-> "corrupt", data |-> <<>>]
\* The file exists and open() raises (no permission, a directory).
FileUnreadable == [kind |-> "unreadable", data |-> <<>>]
\* The file holds a JSON document that is no array (an object, a string).
FileJsonValue == [kind |-> "json_value", data |-> <<>>]

\* An item of a stored array that is no dict (a string, a number).
JsonScalar(v) == [scalar |-> v]

\* isinstance(item, dict)
IsDict(item) == "scalar" \notin DOMAIN item

\* _load_history without the check of the items.
LoadHistoryUnvalidated(file) == IF file.kind = "json" THEN file.data ELSE <<>>

\* ContextManager._load_history: [] when the file is absent; when it
\* exists, the decoded document if it is a list whose items are all dicts
\* with 'role' and 'content', and [] if it is not, or if open() or
\* json.load raised.
LoadHistory(file) ==
    CASE file.kind = "absent" -> <<>>
      [] file.kind = "unreadable" -> <<>>
      [] file.kind = "corrupt" -> <<>>
      [] file.kind = "json_value" -> <<>>
      [] file.kind = "json" ->
           IF \A i \in 1..Len(file.data) :
                 /\ IsDict(file.data[i])
                 /\ "role" \in DOMAIN file.data[i]
                 /\ "content" \in DOMAIN file.data[i]
           THEN file.data
           ELSE <<>>

\* What one run of _save_history can do to the file: the write succeeds,
\* open() fails (file untouched), or open() truncates the file and
\* json.dump fails before the document is complete. Both failures are
\* caught and logged by _save_history.
SaveOutcomes == {"ok", "open_fails", "dump_fails"}

\* _save_history writing the newest entry only.
SaveHistoryDelta(history, file, outcome) ==
    CASE outcome = "ok" ->
           FileJson(IF history = <<>> THEN <<>>
                    ELSE <<history[Len(history)]>>)
      [] outcome = "open_fails" -> file
      [] outcome = "dump_fails" -> FileCorrupt

\* ContextManager._save_history
SaveHistory(history, file, outcome) ==
    CASE outcome = "ok" -> FileJson(history)
      [] outcome = "open_fails" -> file
      [] outcome = "dump_fails" -> FileCorrupt

\* Python's lst[k:] for any integer k.
SliceFrom(lst, k) ==
    LET n == Len(lst)
        start == IF k < 0 THEN (IF n + k > 0 THEN n + k ELSE 0) ELSE Min(k, n)
    IN  SubSeq(lst, start + 1, n)

\* ContextManager.add_message, the in-memory part: append, then keep
\* conversation_history[-max_history_turns:] when the list got longer than
\* max_history_turns.
AddMessage(history, n, role, content) ==
    LET grown == Append(history, Entry(role, content))
    IN  IF Len(grown) > n THEN SliceFrom(grown, -n) ELSE grown

\* clear_history with the reset of conversation_history left out.
ClearHistoryKeeps(history) == history

\* ContextManager.clear_history, the in-memory part.
ClearHistory(history) == <<>>

\* ContextManager.get_full_history
GetFullHistory == conversation_history

\* isinstance(v, str): of the model's values only None is no str.
IsStr(v) == v # None

\* ContextManager.get_context_for_llm: the entries whose content is a str,
\* each rebuilt from its role and content alone.
GetContextForLlm(history) ==
    LET text == SelectSeq(history, LAMBDA turn : IsStr(turn.content))
    IN  [i \in 1..Len(text) |-> Entry(text[i].role, text[i].content)]


(***************************************************************************)
(* Action Policy: agents/action_agent.py                                   *)
(***************************************************************************)

\* The deny lists of validate_action, one per action type.
WebSearchIllegal ==
    {"illegal drugs", "violent acts", "child exploitation", "harmful chemicals"}
\* The second list of web_search with "format" forgotten.
WebSearchDestructiveOnlyDelete == {"delete"}
WebSearchDestructive == {"delete", "format"}
SaveDataSensitive == {"credit card numbers", "ssn", "passwords of others"}
MeetingIllegal == {"bomb threat", "illegal gathering"}

\* The known action types with "none" forgotten.
KnownActionsWithoutNone == {"web_search", "save_data", "schedule_meeting"}

\* The action types validate_action lets through.
KnownActions == {"none", "web_search", "save_data", "schedule_meeting"}

\* any(keyword in details.lower() for keyword in keywords)
AnyKeywordIn(keywords, details) ==
    LET lowered == Lower(details)
    IN  \E keyword \in keywords : Contains(keyword, lowered)

\* What a call returns or raises. ok: a (bool, str) tuple came back;
\* raised: the call ended in an exception; logged: _log_blocked_action ran.
Verdict(valid, message, logged) ==
    [raised |-> FALSE, valid |-> valid, message |-> message, logged |-> logged]
Raised(error) ==
    [raised |-> TRUE, valid |-> FALSE, message |-> error, logged |-> FALSE]

\* action_data.get("query") or action_data.get("data") or action_data.get("details")
DetailsOf(d) == PyOr(PyOr(Get(d, "query"), Get(d, "data")), Get(d, "details"))

\* validate_action with the check of unknown action types left out.
ValidateTypeUnchecked(d) == Verdict(TRUE, "Action is valid.", FALSE)

\* The check of unknown action types that ends validate_action.
ValidateKnownType(d) ==
    LET action_type == Get(d, "action")
    IN  IF action_type \notin KnownActions
        THEN Verdict(FALSE,
                     "Unsupported or unauthorized action: '" \o PyStr(action_type) \o "'.",
                     TRUE)
        ELSE Verdict(TRUE, "Action is valid.", FALSE)

\* ActionAgent.validate_action
ValidateAction(d) ==
    LET action_type == Get(d, "action")
        details == DetailsOf(d)
    IN  CASE action_type = "web_search" ->
               IF Truthy(details) /\ AnyKeywordIn(WebSearchIllegal, details)
               THEN Verdict(FALSE,
                            "Cannot perform web search for harmful or illegal content.",
                            TRUE)
               ELSE IF details = None
               THEN \* details.lower() on None
                    Raised("'NoneType' object has no attribute 'lower'")
               ELSE IF AnyKeywordIn(WebSearchDestructive, details)
               THEN Verdict(FALSE,
                            "Cannot perform web search for potentially destructive actions.",
                            TRUE)
               ELSE ValidateKnownType(d)
          [] action_type = "save_data" ->
               IF Truthy(details) /\ AnyKeywordIn(SaveDataSensitive, details)
               THEN Verdict(FALSE,
                            "Cannot save highly sensitive personal information.",
                            TRUE)
               ELSE ValidateKnownType(d)
          [] action_type = "schedule_meeting" ->
               IF Truthy(details) /\ AnyKeywordIn(MeetingIllegal, details)
               THEN Verdict(FALSE,
                            "Cannot schedule meetings related to illegal activities.",
                            TRUE)
               ELSE ValidateKnownType(d)
          [] OTHER -> ValidateKnownType(d)

\* determine_action with the save_data rule tried before the web_search rule.
DetermineActionSaveFirst(summary) ==
    LET lowered == Lower(summary)
    IN  IF Contains("save this information", lowered)
        THEN [action |-> "save_data", data |-> summary]
        ELSE IF Contains("search the web for", lowered)
        THEN [action |-> "web_search",
              query |-> Strip(AfterFirst(lowered, "search the web for"))]
        ELSE IF Contains("schedule", lowered) /\ Contains("meeting", lowered)
        THEN [action |-> "schedule_meeting", details |-> summary]
        ELSE [action |-> "none"]

\* ActionAgent.determine_action
DetermineAction(summary) ==
    LET lowered == Lower(summary)
    IN  IF Contains("search the web for", lowered)
        THEN [action |-> "web_search",
              query |-> Strip(AfterFirst(lowered, "search the web for"))]
        ELSE IF Contains("save this information", lowered)
        THEN [action |-> "save_data", data |-> summary]
        ELSE IF Contains("schedule", lowered) /\ Contains("meeting", lowered)
        THEN [action |-> "schedule_meeting", details |-> summary]
        ELSE [action |-> "none"]

\* ActionAgent.execute_action: the placeholder effect it prints, "" when it
\* prints nothing, or the exception of data[:50] / details[:50] on None.
ExecuteAction(d) ==
    LET action_type == Get(d, "action")
    IN  CASE action_type = "web_search" ->
               [raised |-> FALSE,
                effect |-> "web search for: '" \o PyStr(Get(d, "query")) \o "'"]
          [] action_type = "save_data" ->
               IF Get(d, "data") = None
               THEN [raised |-> TRUE, effect |-> ""]
               ELSE [raised |-> FALSE,
                     effect |-> "saving data: '" \o Prefix(Get(d, "data"), 50) \o "...'"]
          [] action_type = "schedule_meeting" ->
               IF Get(d, "details") = None
               THEN [raised |-> TRUE, effect |-> ""]
               ELSE [raised |-> FALSE,
                     effect |-> "scheduling meeting: '"
                                \o Prefix(Get(d, "details"), 50) \o "...'"]
          [] OTHER -> [raised |-> FALSE, effect |-> ""]


(***************************************************************************)
(* Completion service call: core/api_handler.py                            *)
(***************************************************************************)

\* retries of _call_gemini_model
retries == 3

\* What one model.generate_content attempt can do: return a response, raise
\* BlockedPromptException, or raise any other exception.
AttemptOutcomes == {"ok", "blocked", "error"}

\* str(e) of the exceptions a call can end in.
BlockedDetail == "prompt blocked by safety settings"
FailedDetail == "Failed to call Gemini API after 3 attempts."

\* The loop of _call_gemini_model running one pass more than retries.
CallStepOneMore(i, outcome) ==
    CASE outcome = "ok" -> "return"
      [] outcome = "blocked" -> "blocked"
      [] outcome = "error" -> IF i < retries THEN "retry" ELSE "failed"

\* One pass through the body of `for i in range(retries)` of
\* _call_gemini_model, at loop index i: the call returns the response,
\* re-raises BlockedPromptException, goes on to attempt i + 1, or leaves the
\* loop and raises the final Exception.
CallStep(i, outcome) ==
    CASE outcome = "ok" -> "return"
      [] outcome = "blocked" -> "blocked"
      [] outcome = "error" -> IF i + 1 < retries THEN "retry" ELSE "failed"

(***************************************************************************)
(* Content Guardrail: agents/guardrail_agent.py                            *)
(***************************************************************************)

\* malicious_keywords of scan_text_input, in the order they are tried.
malicious_keywords ==
    <<"delete all files", "Hacking", "format hard drive", "steal credit card",
      "harm yourself", "do something illegal">>

\* The first keyword of malicious_keywords with `keyword in
\* text_input.lower()`, or None when the loop finds none.
RuleBasedMatch(text_input) ==
    LET lowered == Lower(text_input)
        hits == { i \in 1..Len(malicious_keywords) :
                    Contains(malicious_keywords[i], lowered) }
    IN  IF hits = {} THEN None
        ELSE malicious_keywords[CHOOSE i \in hits : \A j \in hits : i <= j]

\* A (bool, str) verdict of a scan.
ScanVerdict(safe, message) == [safe |-> safe, message |-> message]

RuleBasedMessage ==
    "Your request contains content that violates our safety guidelines. Please rephrase your query."

\* scan_text_input whose handler of other exceptions lets the input pass.
ScanTextVerdictFailOpen(ended) ==
    CASE ended = "return" -> ScanVerdict(TRUE, "Text input is safe.")
      [] ended = "blocked" ->
           ScanVerdict(FALSE,
               "Your request was blocked by safety filters. Please try a different query.")
      [] ended = "failed" -> ScanVerdict(TRUE, "Text input is safe.")

\* scan_text_input with one handler for every exception of the call.
ScanTextVerdictOneHandler(ended) ==
    CASE ended = "return" -> ScanVerdict(TRUE, "Text input is safe.")
      [] ended \in {"blocked", "failed"} ->
           ScanVerdict(FALSE,
               "An internal error occurred during safety check. Please try again.")

\* The try/except around generate_text in scan_text_input: the verdict for
\* each way the call can end.
ScanTextVerdict(ended) ==
    CASE ended = "return" -> ScanVerdict(TRUE, "Text input is safe.")
      [] ended = "blocked" ->
           ScanVerdict(FALSE,
               "Your request was blocked by safety filters. Please try a different query.")
      [] ended = "failed" ->
           ScanVerdict(FALSE,
               "An internal error occurred during safety check. Please try again.")

\* The try/except around generate_vision_response in scan_image_input.
ScanImageVerdict(ended) ==
    CASE ended = "return" -> ScanVerdict(TRUE, "Image input is safe.")
      [] ended = "blocked" ->
           ScanVerdict(FALSE,
               "The image you provided was blocked by safety filters. Please try a different image.")
      [] ended = "failed" ->
           ScanVerdict(FALSE,
               "An internal error occurred during image safety check. Please try again.")

\* The record _log_blocked_content writes: input type, reason and the first
\* 100 characters of the content.
BlockedRecord(input_type, content, reason) ==
    [type |-> input_type, reason |-> reason, content |-> Prefix(content, 100)]

\* The records the scan of a text writes when its call ends in `ended`:
\* only the BlockedPromptException handler logs the block.
ScanTextAudit(text_input, ended) ==
    IF ended = "blocked"
    THEN <<BlockedRecord("text", text_input,
                         "Gemini API blocked: " \o BlockedDetail)>>
    ELSE <<>>

\* The same for the scan of an image with its prompt.
ScanImageAudit(user_prompt, ended) ==
    IF ended = "blocked"
    THEN <<BlockedRecord("image",
                         "Image data (bytes) with prompt: " \o PyStr(user_prompt),
                         "Gemini API blocked: " \o BlockedDetail)>>
    ELSE <<>>

(***************************************************************************)
(* Turn Orchestrator: main.py                                              *)
(***************************************************************************)

ALLOWED_EXTENSIONS == {"png", "jpg", "jpeg", "gif", "webp"}

\* allowed_file(filename)
AllowedFile(filename) ==
    /\ Contains(".", filename)
    /\ Lower(AfterLast(filename, ".")) \in ALLOWED_EXTENSIONS

\* request.files.get('image_file'): no file part, or an upload with its
\* filename. bool(uploaded_file) is bool(uploaded_file.filename).
NoFile == [present |-> FALSE, filename |-> ""]
Upload(filename) == [present |-> TRUE, filename |-> filename]
FileTruthy(file) == file.present /\ file.filename # ""

\* `uploaded_file and allowed_file(uploaded_file.filename)`: the turn is
\* handled as an image turn.
IsImageTurn(file) == FileTruthy(file) /\ AllowedFile(file.filename)

\* The if/elif/else over the inputs with the else branch left out: a turn
\* without an image goes to scan_text_input whatever its text.
InputBranchNoReject(text, file) ==
    IF IsImageTurn(file) THEN "image" ELSE "text"

\* The if/elif/else of chat over the inputs: the image scan, the text scan,
\* or the return of the input error.
InputBranch(text, file) ==
    IF IsImageTurn(file) THEN "image"
    ELSE IF Truthy(text) THEN "text"
    ELSE "none"

RECURSIVE SecureFilename(_)
\* werkzeug's secure_filename, as far as the model's filenames go: a space
\* becomes an underscore.
SecureFilename(filename) ==
    IF filename = "" THEN ""
    ELSE (IF SubSeq(filename, 1, 1) = " " THEN "_" ELSE SubSeq(filename, 1, 1))
         \o SecureFilename(SubSeq(filename, 2, Len(filename)))

\* What chat returns: jsonify({"response", "history"}), or
\* jsonify({"error"}) with status 400 or 500. Status 0: nothing returned yet.
NoResult == [status |-> 0, response |-> "", error |-> "", history |-> <<>>]
ReplyResult(response, history) ==
    [status |-> 200, response |-> response, error |-> "", history |-> history]
ErrorResult(status, error) ==
    [status |-> status, response |-> "", error |-> error, history |-> <<>>]

RECURSIVE AddMessages(_, _, _, _, _)
\* add_message called once per entry, in order; each call appends, trims
\* and runs _save_history with the next outcome.
AddMessages(history, file, n, entries, outcomes) ==
    IF entries = <<>> THEN [history |-> history, file |-> file]
    ELSE LET h == AddMessage(history, n, Head(entries).role, Head(entries).content)
         IN  AddMessages(h, SaveHistory(h, file, Head(outcomes)), n,
                         Tail(entries), Tail(outcomes))

\* The blocked branch with the add_message of the user entry left out.
BlockedEntriesNoUser(text, file, message) ==
    << Entry("model", "[Guardrail]: " \o message) >>

\* The two add_message calls of the blocked branch of chat.
BlockedEntries(text, file, message) ==
    << Entry("user",
             IF Truthy(text) THEN text ELSE "[Image: " \o file.filename \o "]"),
       Entry("model", "[Guardrail]: " \o message) >>

\* context_summary of the image branch and of the text branch.
ContextSummary(file, analysis) ==
    IF IsImageTurn(file) THEN "Image analysis: " \o analysis
    ELSE "Text analysis: " \o analysis

\* gemini_response of the two branches.
GeminiResponse(file, analysis) ==
    IF IsImageTurn(file) THEN "[Image Analysis]: " \o analysis
    ELSE "[Text Analysis]: " \o analysis

\* The add_message calls after the analysis with the one of the user entry
\* made twice.
AnalysisEntriesUserTwice(text, file, analysis) ==
    << Entry("user", text), Entry("user", text),
       Entry("model", GeminiResponse(file, analysis)) >>

\* The two add_message calls that follow the content analysis.
AnalysisEntries(text, file, analysis) ==
    IF IsImageTurn(file)
    THEN << Entry("user",
                  "[Image: " \o SecureFilename(file.filename) \o "] "
                     \o (IF Truthy(text) THEN text ELSE "Image provided.")),
            Entry("model", GeminiResponse(file, analysis)) >>
    ELSE << Entry("user", text),
            Entry("model", GeminiResponse(file, analysis)) >>

\* chat calling execute_action whatever the verdict of validate_action.
ShouldExecuteUnvalidated(verdict, request) == request["action"] # "none"

\* The branch of chat that calls execute_action: the verdict is valid and
\* the action is not "none".
ShouldExecute(verdict, request) ==
    verdict.valid /\ request["action"] # "none"

\* action_message without the branch of `not is_action_valid`.
ActionMessageNeverBlocked(verdict, request) ==
    IF request["action"] # "none"
    THEN "[ACTION]: " \o request["action"] \o " performed."
    ELSE "[ACTION]: No specific action determined."

\* action_message of the three branches that follow validate_action.
ActionMessage(verdict, request) ==
    IF ~verdict.valid THEN "[ACTION BLOCKED]: " \o verdict.message
    ELSE IF request["action"] # "none"
    THEN "[ACTION]: " \o request["action"] \o " performed."
         \o (IF "query" \in DOMAIN request
             THEN " (Query: '" \o request["query"] \o "')"
             ELSE IF "details" \in DOMAIN request
             THEN " (Details: '" \o Prefix(request["details"], 50) \o "...')"
             ELSE "")
    ELSE "[ACTION]: No specific action determined."

\* full_response
FullResponse(analysis_notice, notice, final_response_text) ==
    analysis_notice \o "\n\n" \o notice \o "\n\nGemini: " \o final_response_text

(***************************************************************************)
(* Bounds and input sets                                                   *)
(***************************************************************************)

\* Largest max_history_turns a History Store is constructed with.
MaxN == 2
\* Store operations performed on one History Store.
MaxOps == 4

Roles == {"user", "model"}
StoreContents == {"a", "b"}

\* What the history file can hold when the store is constructed.
InitialFiles ==
    { FileAbsent, FileCorrupt, FileJson(<<>>),
      FileJson(<<Entry("user", "x")>>),
      FileJson(<<Entry("user", "x"), Entry("model", "y"), Entry("user", "z")>>) }

\* Items of the array a history file holds at process start.
MaxStored == 2

\* What an item of a stored array can be: an entry, an entry with one more
\* key, a dict without 'content', a dict without 'role', no dict at all.
StoredItems ==
    { Entry("user", "x"), Entry("model", "y"),
      [role |-> "user", content |-> "z", time |-> "noon"],
      [role |-> "user"], [content |-> "x"], JsonScalar("x") }

\* What the history file can hold when the process starts.
StartFiles ==
    {FileAbsent, FileUnreadable, FileCorrupt, FileJsonValue}
    \cup { FileJson(items) :
              items \in UNION { [1..k -> StoredItems] : k \in 0..MaxStored } }

\* Action requests handed to validate_action: every type, known or not or
\* missing, with no payload or one payload under one of the three keys.
RequestTypes ==
    {"none", "web_search", "save_data", "schedule_meeting",
     None, "", "NONE", "delete_files", "web_search "}
PayloadKeys == {None, "query", "data", "details"}
Payloads ==
    {"", "cats", "Illegal Drugs online", "how to format a disk",
     "my ssn", "bomb threat at noon", "delete old mail", "piano lessons",
     "PASSWORDS OF OTHERS"}

\* The dict with the given type (None: no 'action' key) and payload
\* (key None: no payload key).
Request(type, key, payload) ==
    [k \in (IF type = None THEN {} ELSE {"action"})
           \cup (IF key = None THEN {} ELSE {key}) |->
        IF k = "action" THEN type ELSE payload]

Requests ==
    { Request(t, k, p) : t \in RequestTypes, k \in PayloadKeys, p \in Payloads }

\* validate_action has not been called on action_data yet.
NoVerdict == Verdict(FALSE, "<not validated>", FALSE)

\* Turns one run of the service receives.
MaxTurns == 1

\* max_history_turns of the ContextManager that main.py constructs (the
\* default of ContextManager.__init__).
DefaultMaxHistoryTurns == 10

\* A history of n entries, user and model in turn, each with its own content.
StoredHistory(n) ==
    [i \in 1..n |->
        Entry(IF i % 2 = 1 THEN "user" ELSE "model", SubSeq("abcdefghijkl", i, i))]

\* The history file main.py starts over: none, or one that earlier runs
\* left, short or full.
ChatInitialFiles ==
    { FileAbsent, FileJson(StoredHistory(2)),
      FileJson(StoredHistory(DefaultMaxHistoryTurns)) }

\* text_input of a /chat request, before .strip().
RawTexts == {"", "  ", " hello ", "Format Hard Drive now"}

\* image_file of a /chat request.
Uploads == {NoFile, Upload("my cat.PNG"), Upload("notes.exe")}

\* Analyses the completion service returns to analyze_text and
\* analyze_image_from_bytes.
Analyses ==
    {"The user greets.",
     "The user wants to Search the Web for Cats",
     "search the web for illegal drugs now",
     "They ask to search the web for ",
     "Save this information please",
     "Let's schedule a meeting for Tuesday"}

\* Replies the completion service returns to generate_response.
Replies == {"Sure."}

\* s with its first letter in upper case and the rest in lower case.
Capitalize(s) ==
    IF s = "" THEN "" ELSE UpperChar(SubSeq(s, 1, 1)) \o Lower(SubSeq(s, 2, Len(s)))

\* text_input of scan_text_input called on its own: every keyword of
\* malicious_keywords as listed, in lower case, in upper case, capitalized
\* and inside a sentence, and texts that hold no keyword.
GuardTexts ==
    UNION { {malicious_keywords[i], Lower(malicious_keywords[i]),
             Upper(malicious_keywords[i]), Capitalize(malicious_keywords[i]),
             "please " \o malicious_keywords[i] \o " now",
             "Can you " \o Upper(malicious_keywords[i]) \o "?"} :
            i \in 1..Len(malicious_keywords) }
    \cup {"hello", "format", "a hard drive", "delete files", "hack",
          "my credit card", "is this illegal", "Format my Hard Drive",
          "do no harm", "steal the show"}

\* What the analysis of a turn can say, as far as determine_action goes:
\* no rule's phrase, one rule's, several rules' in either order, a phrase
\* twice, in other letter cases, cut short, and with blanks around it.
SummaryBodies ==
    {"", "The user greets.",
     "search the web for cats", "Search The Web For Cats  ",
     "SEARCH THE WEB FOR   dogs and cats",
     "search the web for", "search the web for   ",
     "search the web for a, then search the web for b",
     "search the web", "search for the web",
     "save this information", "Save This Information please",
     "save this info", "information: save this",
     "schedule a meeting", "a MEETING to Schedule", "schedule it",
     "the meeting is over", "reschedule meetings",
     "save this information and search the web for cats",
     "search the web for cats and save this information",
     "schedule a meeting and save this information",
     "save this information, then schedule a meeting",
     "schedule a meeting to search the web for cats",
     "search the web for a meeting schedule",
     "save this information: search the web for a meeting schedule"}

\* context_summary as chat builds it (with either label) and as any other
\* caller may pass it.
Summaries ==
    { label \o body : label \in {"", "Text analysis: ", "Image analysis: "},
                       body \in SummaryBodies }

(***************************************************************************)
(* SpecStore: one History Store, constructed with any max_history_turns    *)
(* over any initial file, and used through add_message and clear_history.  *)
(***************************************************************************)

PolicyIdle == action_data = [action |-> "none"] /\ validation = NoVerdict

\* No /chat request has been received.
ChatIdle ==
    /\ pc = "idle"
    /\ attempt = 0
    /\ turns = 0
    /\ result = NoResult
    /\ user_input_text = ""
    /\ uploaded_file = NoFile
    /\ llm_history = <<>>
    /\ is_input_safe = TRUE
    /\ guardrail_message = ""
    /\ context_summary = ""
    /\ gemini_response = ""
    /\ action_message = ""
    /\ calls = <<>>
    /\ guard_call = "none"
    /\ validated = <<>>
    /\ executed = <<>>
    /\ appended = <<>>
    /\ audit = <<>>

\* No add_message or clear_history call is running beside another.
NoThreads == [loaded |-> <<>>, run |-> <<>>]

\* ContextManager.__init__
StoreConstructed(n, file) ==
    /\ max_history_turns = n
    /\ history_file = file
    /\ conversation_history = LoadHistory(file)
    /\ last_op = "init"
    /\ last_save = "none"
    /\ adds = 0
    /\ ops = 0
    /\ from_empty = (LoadHistory(file) = <<>>)
    /\ log = <<>>
    /\ threads = NoThreads

InitStore ==
    /\ \E n \in 0..MaxN, file \in InitialFiles : StoreConstructed(n, file)
    /\ PolicyIdle
    /\ ChatIdle

\* add_message(role, content): append and trim, then _save_history.
StoreAddMessage ==
    /\ ops < MaxOps
    /\ \E role \in Roles, content \in StoreContents, outcome \in SaveOutcomes :
         /\ conversation_history' =
                AddMessage(conversation_history, max_history_turns, role, content)
         /\ history_file' = SaveHistory(conversation_history', history_file, outcome)
         /\ last_save' = outcome
         /\ log' = Append(log, Entry(role, content))
    /\ last_op' = "add"
    /\ adds' = adds + 1
    /\ ops' = ops + 1
    /\ UNCHANGED <<max_history_turns, from_empty, threads, policy_vars, chat_vars>>

\* clear_history(): reset, then _save_history.
StoreClearHistory ==
    /\ ops < MaxOps
    /\ \E outcome \in SaveOutcomes :
         /\ conversation_history' = ClearHistory(conversation_history)
         /\ history_file' = SaveHistory(conversation_history', history_file, outcome)
         /\ last_save' = outcome
    /\ last_op' = "clear"
    /\ ops' = ops + 1
    /\ from_empty' = (conversation_history' = <<>>)
    /\ log' = <<>>
    /\ UNCHANGED <<max_history_turns, adds, threads, policy_vars, chat_vars>>

\* The process ends and is started again with the same max_history_turns:
\* the new ContextManager loads what the file holds.
StoreRestart ==
    /\ last_op # "init"
    /\ conversation_history' = LoadHistory(history_file)
    /\ from_empty' = (LoadHistory(history_file) = <<>>)
    /\ last_op' = "init"
    /\ last_save' = "none"
    /\ adds' = 0
    /\ log' = <<>>
    /\ UNCHANGED <<max_history_turns, history_file, ops, threads,
                   policy_vars, chat_vars>>

NextStore == StoreAddMessage \/ StoreClearHistory \/ StoreRestart

SpecStore == InitStore /\ [][NextStore]_vars

(***************************************************************************)
(* Process start: python main.py runs the module, which constructs the     *)
(* ContextManager over HISTORY_FILE, and then the __main__ block.          *)
(***************************************************************************)

\* The modules main.py imports by name.
MainImports == {"os", "sys", "logging"}

\* The process has started and main.py has not constructed anything yet.
InitStart ==
    /\ max_history_turns = DefaultMaxHistoryTurns
    /\ history_file \in StartFiles
    /\ conversation_history = <<>>
    /\ last_op = "none"
    /\ last_save = "none"
    /\ adds = 0
    /\ ops = 0
    /\ from_empty = TRUE
    /\ log = <<>>
    /\ threads = NoThreads
    /\ PolicyIdle
    /\ pc = "import"
    /\ attempt = 0
    /\ turns = 0
    /\ result = NoResult
    /\ user_input_text = ""
    /\ uploaded_file = NoFile
    /\ llm_history = <<>>
    /\ is_input_safe = TRUE
    /\ guardrail_message = ""
    /\ context_summary = ""
    /\ gemini_response = ""
    /\ action_message = ""
    /\ calls = <<>>
    /\ guard_call = "none"
    /\ validated = <<>>
    /\ executed = <<>>
    /\ appended = <<>>
    /\ audit = <<>>

StartFrame ==
    UNCHANGED <<max_history_turns, last_save, adds, ops, log, threads,
                policy_vars, attempt, turns, result, turn_locals, turn_book>>

\* context_manager = ContextManager(history_file=HISTORY_FILE)
StartConstruct ==
    /\ pc = "import"
    /\ conversation_history' = LoadHistory(history_file)
    /\ from_empty' = (conversation_history' = <<>>)
    /\ last_op' = "init"
    /\ pc' = "main"
    /\ UNCHANGED history_file
    /\ StartFrame

\* The __main__ block: when os.path.exists(HISTORY_FILE) is false, open the
\* file for writing and json.dump([], f); then app.run. open() creates the
\* file empty or raises; json is a name main.py never imports, so the dump
\* raises NameError. Neither exception is caught: the process ends.
StartBootstrap ==
    /\ pc = "main"
    /\ IF history_file.kind = "absent"
       THEN \E opened \in BOOLEAN :
              IF ~opened
              THEN pc' = "crashed" /\ UNCHANGED history_file
              ELSE IF "json" \in MainImports
              THEN pc' = "idle" /\ history_file' = FileJson(<<>>)
              ELSE pc' = "crashed" /\ history_file' = FileCorrupt
       ELSE pc' = "idle" /\ UNCHANGED history_file
    /\ UNCHANGED <<conversation_history, from_empty, last_op>>
    /\ StartFrame

\* The process is started again: what it held in memory is gone.
StartAgain ==
    /\ pc \in {"idle", "crashed"}
    /\ pc' = "import"
    /\ conversation_history' = <<>>
    /\ from_empty' = TRUE
    /\ last_op' = "none"
    /\ UNCHANGED history_file
    /\ StartFrame

NextStart == StartConstruct \/ StartBootstrap \/ StartAgain

SpecStart == InitStart /\ [][NextStart]_vars

(***************************************************************************)
(* SpecConc: the one ContextManager of main.py used by request handlers    *)
(* that run in threads of their own (app.run serves each request in a      *)
(* thread). Two add_message calls and one clear_history call run side by   *)
(* side; a call is cut between its statements, and the assignment of the   *)
(* slice between the evaluation of its right-hand side and the store into  *)
(* the attribute. The methods take no lock.                                *)
(***************************************************************************)

\* The calls that run side by side.
ThreadCalls ==
    [t1 |-> [op |-> "add_message", role |-> "user", content |-> "a"],
     t2 |-> [op |-> "add_message", role |-> "model", content |-> "b"],
     t3 |-> [op |-> "clear_history", role |-> "", content |-> ""]]

Threads == DOMAIN ThreadCalls

\* A call before its first statement; sliced is the value of
\* self.conversation_history[-self.max_history_turns:] once evaluated.
ThreadStart(t) ==
    [pc |-> IF ThreadCalls[t].op = "add_message" THEN "append" ELSE "reset",
     sliced |-> <<>>]

InitConc ==
    /\ \E n \in 1..MaxN, file \in InitialFiles :
          /\ max_history_turns = n
          /\ history_file = file
          /\ conversation_history = LoadHistory(file)
          /\ from_empty = (LoadHistory(file) = <<>>)
          /\ threads = [loaded |-> LoadHistory(file),
                        run |-> [t \in Threads |-> ThreadStart(t)]]
    /\ last_op = "init"
    /\ last_save = "none"
    /\ adds = 0
    /\ ops = 0
    /\ log = <<>>
    /\ PolicyIdle
    /\ ChatIdle

\* The call of thread t moves on to statement `next`.
ThreadGoes(t, next, sliced) ==
    threads' = [threads EXCEPT !.run[t] = [pc |-> next, sliced |-> sliced]]

ConcFrame ==
    UNCHANGED <<max_history_turns, last_op, adds, ops, from_empty, log,
                policy_vars, chat_vars>>

\* self.conversation_history.append({'role': role, 'content': content})
ConcAppend(t) ==
    /\ threads.run[t].pc = "append"
    /\ conversation_history' =
           Append(conversation_history,
                  Entry(ThreadCalls[t].role, ThreadCalls[t].content))
    /\ ThreadGoes(t, "test", <<>>)
    /\ UNCHANGED <<history_file, last_save>>
    /\ ConcFrame

\* if len(self.conversation_history) > self.max_history_turns:
ConcTest(t) ==
    /\ threads.run[t].pc = "test"
    /\ ThreadGoes(t, IF Len(conversation_history) > max_history_turns
                     THEN "slice" ELSE "save", <<>>)
    /\ UNCHANGED <<conversation_history, history_file, last_save>>
    /\ ConcFrame

\* The right-hand side self.conversation_history[-self.max_history_turns:]
ConcSlice(t) ==
    /\ threads.run[t].pc = "slice"
    /\ ThreadGoes(t, "assign", SliceFrom(conversation_history, -max_history_turns))
    /\ UNCHANGED <<conversation_history, history_file, last_save>>
    /\ ConcFrame

\* self.conversation_history = <the slice>
ConcAssign(t) ==
    /\ threads.run[t].pc = "assign"
    /\ conversation_history' = threads.run[t].sliced
    /\ ThreadGoes(t, "save", <<>>)
    /\ UNCHANGED <<history_file, last_save>>
    /\ ConcFrame

\* self.conversation_history = [] of clear_history
ConcReset(t) ==
    /\ threads.run[t].pc = "reset"
    /\ conversation_history' = ClearHistory(conversation_history)
    /\ ThreadGoes(t, "save", <<>>)
    /\ UNCHANGED <<history_file, last_save>>
    /\ ConcFrame

\* self._save_history() that ends add_message and clear_history
ConcSave(t) ==
    /\ threads.run[t].pc = "save"
    /\ \E outcome \in SaveOutcomes :
          /\ history_file' = SaveHistory(conversation_history, history_file, outcome)
          /\ last_save' = outcome
    /\ ThreadGoes(t, "done", <<>>)
    /\ UNCHANGED conversation_history
    /\ ConcFrame

\* What get_history returns: jsonify({"history": ...}).
HistoryResult(history) ==
    [status |-> 200, response |-> "", error |-> "", history |-> history]

\* One /get_history request, handled in a thread of its own while the
\* calls run: get_full_history returns the list itself, as it is between
\* two statements of the other threads, and jsonify renders it.
ConcGetHistory ==
    /\ result = NoResult
    /\ result' = HistoryResult(GetFullHistory)
    /\ UNCHANGED <<store_vars, store_book, policy_vars, pc, attempt, turns,
                   turn_locals, turn_book>>

NextConc ==
    \/ \E t \in Threads :
          \/ ConcAppend(t)
          \/ ConcTest(t)
          \/ ConcSlice(t)
          \/ ConcAssign(t)
          \/ ConcReset(t)
          \/ ConcSave(t)
    \/ ConcGetHistory

SpecConc == InitConc /\ [][NextConc]_vars

(***************************************************************************)
(* SpecPolicy: validate_action applied to any request.                     *)
(***************************************************************************)

InitPolicy ==
    /\ StoreConstructed(DefaultMaxHistoryTurns, FileAbsent)
    /\ ChatIdle
    /\ action_data \in Requests
    /\ validation = NoVerdict

\* validate_action(action_data)
PolicyValidate ==
    /\ validation = NoVerdict
    /\ validation' = ValidateAction(action_data)
    /\ UNCHANGED <<action_data, store_vars, store_book, chat_vars>>

\* The next request to validate.
PolicyRequest ==
    /\ validation # NoVerdict
    /\ action_data' \in Requests
    /\ validation' = NoVerdict
    /\ UNCHANGED <<store_vars, store_book, chat_vars>>

NextPolicy == PolicyValidate \/ PolicyRequest

SpecPolicy == InitPolicy /\ [][NextPolicy]_vars


(***************************************************************************)
(* SpecDerive: determine_action applied to any context summary.            *)
(***************************************************************************)

InitDerive ==
    /\ StoreConstructed(DefaultMaxHistoryTurns, FileAbsent)
    /\ PolicyIdle
    /\ ChatIdle

\* The next summary to derive an action from.
DeriveSummary ==
    /\ pc \in {"idle", "done"}
    /\ context_summary' \in Summaries
    /\ action_data' = [action |-> "none"]
    /\ pc' = "derive"
    /\ UNCHANGED <<store_vars, store_book, validation, attempt, turns, result,
                   user_input_text, uploaded_file, llm_history, is_input_safe,
                   guardrail_message, gemini_response, action_message,
                   turn_book>>

\* action_data = determine_action(context_summary)
DeriveAction ==
    /\ pc = "derive"
    /\ action_data' = DetermineAction(context_summary)
    /\ pc' = "done"
    /\ UNCHANGED <<store_vars, store_book, validation, attempt, turns, result,
                   turn_locals, turn_book>>

NextDerive == DeriveSummary \/ DeriveAction

SpecDerive == InitDerive /\ [][NextDerive]_vars

(***************************************************************************)
(* Spec: the service of main.py. Each /chat request runs the handler from  *)
(* its first line to its return; the handler is cut only where it waits    *)
(* for an attempt of a completion-service call.                            *)
(***************************************************************************)

Init ==
    /\ \E file \in ChatInitialFiles :
           StoreConstructed(DefaultMaxHistoryTurns, file)
    /\ PolicyIdle
    /\ ChatIdle

\* The blocked branch of chat: two add_message calls, then the reply that
\* carries the guardrail message. `called` are the calls made before it.
ReturnBlocked(text, file, message, called) ==
    \E entries \in {BlockedEntries(text, file, message)} :
    \E outcomes \in [1..Len(entries) -> SaveOutcomes] :
        LET store == AddMessages(conversation_history, history_file,
                                 max_history_turns, entries, outcomes)
        IN  /\ conversation_history' = store.history
            /\ history_file' = store.file
            /\ last_save' = outcomes[Len(entries)]
            /\ appended' = entries
            /\ calls' = called \o [i \in 1..Len(entries) |-> "add_message"]
                               \o <<"get_full_history">>
            /\ is_input_safe' = FALSE
            /\ guardrail_message' = message
            /\ result' = ReplyResult("System: " \o message, store.history)
            /\ pc' = "done"

\* The except branch returning the error as an ordinary reply.
ReturnErrorAsReply(error) ==
    /\ result' = ReplyResult("Error: " \o error, <<>>)
    /\ pc' = "done"

\* The except branch keeping the handler where it is instead of returning.
ReturnErrorStays(error) ==
    /\ result' = NoResult
    /\ pc' = pc

\* The except branch of chat: the error of the exception, status 500.
ReturnError(error) ==
    /\ result' = ErrorResult(500, error)
    /\ pc' = "done"

\* chat, from the request to the first completion-service call: the inputs,
\* get_context_for_llm, and the guardrail scan up to its call (for a text,
\* the rule-based check first, which may end the turn at once).
ChatReceive ==
    /\ pc \in {"idle", "done"}
    /\ turns < MaxTurns
    /\ \E raw \in RawTexts, file \in Uploads :
         LET text == Strip(raw)
             keyword == RuleBasedMatch(text)
         IN  /\ turns' = turns + 1
             /\ user_input_text' = text
             /\ uploaded_file' = file
             /\ llm_history' = GetContextForLlm(conversation_history)
             /\ context_summary' = ""
             /\ gemini_response' = ""
             /\ action_message' = ""
             /\ action_data' = [action |-> "none"]
             /\ validation' = NoVerdict
             /\ validated' = <<>>
             /\ executed' = <<>>
             /\ guard_call' = "none"
             /\ attempt' = 0
             /\ IF InputBranch(text, file) = "image"
                THEN /\ pc' = "guard"
                     /\ calls' = <<"get_context_for_llm", "scan_image_input",
                                   "generate_vision_response">>
                     /\ is_input_safe' = TRUE
                     /\ guardrail_message' = ""
                     /\ audit' = <<>>
                     /\ appended' = <<>>
                     /\ result' = NoResult
                     /\ UNCHANGED <<conversation_history, history_file, last_save>>
                ELSE IF InputBranch(text, file) = "text"
                THEN IF keyword # None
                     THEN /\ audit' = <<BlockedRecord("text", text,
                                          "Rule-based: detected '" \o keyword \o "'")>>
                          /\ ReturnBlocked(text, file, RuleBasedMessage,
                                 <<"get_context_for_llm", "scan_text_input">>)
                     ELSE /\ pc' = "guard"
                          /\ calls' = <<"get_context_for_llm", "scan_text_input",
                                        "generate_text">>
                          /\ is_input_safe' = TRUE
                          /\ guardrail_message' = ""
                          /\ audit' = <<>>
                          /\ appended' = <<>>
                          /\ result' = NoResult
                          /\ UNCHANGED <<conversation_history, history_file, last_save>>
                ELSE /\ pc' = "done"
                     /\ calls' = <<"get_context_for_llm">>
                     /\ is_input_safe' = TRUE
                     /\ guardrail_message' = ""
                     /\ audit' = <<>>
                     /\ appended' = <<>>
                     /\ result' = ErrorResult(400, "No text or image input provided.")
                     /\ UNCHANGED <<conversation_history, history_file, last_save>>
    /\ UNCHANGED <<max_history_turns, store_trace>>

\* One attempt of the completion-service call of the guardrail scan, and
\* what follows it: the next attempt, or the verdict of the scan and then
\* either the blocked branch of chat or the start of the content analysis.
ChatGuardAttempt ==
    /\ pc = "guard"
    /\ \E outcome \in AttemptOutcomes :
         LET ended == CallStep(attempt, outcome)
             image == IsImageTurn(uploaded_file)
             verdict == IF image THEN ScanImageVerdict(ended)
                        ELSE ScanTextVerdict(ended)
         IN  IF ended = "retry"
             THEN /\ attempt' = attempt + 1
                  /\ UNCHANGED <<pc, result, store_vars, last_save,
                                 turn_locals, turn_book>>
             ELSE IF verdict.safe
             THEN /\ is_input_safe' = TRUE
                  /\ guardrail_message' = verdict.message
                  /\ guard_call' = ended
                  /\ pc' = "analyze"
                  /\ attempt' = 0
                  /\ calls' = calls \o
                        (IF image
                         THEN <<"analyze_image_from_bytes", "generate_vision_response">>
                         ELSE <<"analyze_text", "generate_text">>)
                  /\ UNCHANGED <<result, store_vars, last_save, user_input_text,
                                 uploaded_file, llm_history, context_summary,
                                 gemini_response, action_message, validated,
                                 executed, appended, audit>>
             ELSE /\ audit' = audit \o
                        (IF image THEN ScanImageAudit(user_input_text, ended)
                         ELSE ScanTextAudit(user_input_text, ended))
                  /\ ReturnBlocked(user_input_text, uploaded_file,
                                   verdict.message, calls)
                  /\ guard_call' = ended
                  /\ attempt' = 0
                  /\ UNCHANGED <<user_input_text, uploaded_file, llm_history,
                                 context_summary, gemini_response,
                                 action_message, validated, executed>>
    /\ UNCHANGED <<max_history_turns, store_trace, policy_vars, turns>>

\* chat after the content analysis returned `analysis`: the two
\* add_message calls, determine_action, validate_action, the branch on its
\* verdict with execute_action, up to the call of generate_response. An
\* exception of validate_action or execute_action ends the turn in the
\* except branch.
AnalysisReturned(analysis) ==
    \E summary \in {ContextSummary(uploaded_file, analysis)} :
    \E request \in {DetermineAction(summary)} :
    \E verdict \in {ValidateAction(request)} :
    \E entries \in {AnalysisEntries(user_input_text, uploaded_file, analysis)} :
    \E outcomes \in [1..Len(entries) -> SaveOutcomes] :
        LET store == AddMessages(conversation_history, history_file,
                                 max_history_turns, entries, outcomes)
            runs == ~verdict.raised /\ ShouldExecute(verdict, request)
            effect == ExecuteAction(request)
            common == calls \o [i \in 1..Len(entries) |-> "add_message"]
                            \o <<"determine_action", "validate_action">>
        IN  /\ context_summary' = summary
            /\ gemini_response' = GeminiResponse(uploaded_file, analysis)
            /\ conversation_history' = store.history
            /\ history_file' = store.file
            /\ last_save' = outcomes[Len(entries)]
            /\ appended' = entries
            /\ action_data' = request
            /\ validation' = verdict
            /\ validated' = <<request>>
            /\ executed' = IF runs THEN <<request>> ELSE <<>>
            /\ attempt' = 0
            /\ IF verdict.raised
               THEN /\ ReturnError(verdict.message)
                    /\ calls' = common
                    /\ UNCHANGED action_message
               ELSE IF runs /\ effect.raised
               THEN /\ ReturnError("'NoneType' object is not subscriptable")
                    /\ calls' = common \o <<"execute_action">>
                    /\ UNCHANGED action_message
               ELSE /\ action_message' = ActionMessage(verdict, request)
                    /\ calls' = common
                         \o (IF runs THEN <<"execute_action">> ELSE <<>>)
                         \o <<"generate_response", "generate_text">>
                    /\ pc' = "respond"
                    /\ UNCHANGED result

\* One attempt of the completion-service call of the content analysis, and
\* what follows it.
ChatAnalysisAttempt ==
    /\ pc = "analyze"
    /\ \E outcome \in AttemptOutcomes :
         LET ended == CallStep(attempt, outcome)
         IN  CASE ended = "retry" ->
                    /\ attempt' = attempt + 1
                    /\ UNCHANGED <<pc, result, conversation_history, history_file,
                                   last_save, policy_vars, context_summary, gemini_response,
                                   action_message, calls, validated, executed,
                                   appended>>
               [] ended = "return" ->
                    \E analysis \in Analyses : AnalysisReturned(analysis)
               [] ended \in {"blocked", "failed"} ->
                    /\ ReturnError(IF ended = "blocked" THEN BlockedDetail
                                   ELSE FailedDetail)
                    /\ attempt' = 0
                    /\ UNCHANGED <<conversation_history, history_file,
                                   last_save, policy_vars, context_summary, gemini_response,
                                   action_message, calls, validated, executed,
                                   appended>>
    /\ UNCHANGED <<max_history_turns, store_trace, turns, user_input_text,
                   uploaded_file, llm_history, is_input_safe, guardrail_message,
                   guard_call, audit>>

\* One attempt of the completion-service call of generate_response, and
\* what follows it: the last add_message and the reply.
ChatResponseAttempt ==
    /\ pc = "respond"
    /\ \E outcome \in AttemptOutcomes :
         LET ended == CallStep(attempt, outcome)
         IN  CASE ended = "retry" ->
                    /\ attempt' = attempt + 1
                    /\ UNCHANGED <<pc, result, conversation_history, history_file,
                                   last_save, calls, appended>>
               [] ended = "return" ->
                    \E final_response_text \in Replies, outcome2 \in SaveOutcomes :
                        LET entry == Entry("model", final_response_text)
                            store == AddMessages(conversation_history, history_file,
                                         max_history_turns, <<entry>>, <<outcome2>>)
                        IN  /\ conversation_history' = store.history
                            /\ history_file' = store.file
                            /\ last_save' = outcome2
                            /\ appended' = Append(appended, entry)
                            /\ calls' = calls \o <<"add_message", "get_full_history">>
                            /\ result' = ReplyResult(
                                   FullResponse(gemini_response, action_message,
                                                final_response_text),
                                   store.history)
                            /\ pc' = "done"
                            /\ attempt' = 0
               [] ended \in {"blocked", "failed"} ->
                    /\ ReturnError(IF ended = "blocked" THEN BlockedDetail
                                   ELSE FailedDetail)
                    /\ attempt' = 0
                    /\ UNCHANGED <<conversation_history, history_file,
                                   last_save, calls, appended>>
    /\ UNCHANGED <<max_history_turns, store_trace, policy_vars, turns,
                   turn_locals, guard_call, validated, executed, audit>>

Next ==
    \/ ChatReceive
    \/ ChatGuardAttempt
    \/ ChatAnalysisAttempt
    \/ ChatResponseAttempt

Spec == Init /\ [][Next]_vars

\* The service started without a history file.
InitNoFile ==
    /\ StoreConstructed(DefaultMaxHistoryTurns, FileAbsent)
    /\ PolicyIdle
    /\ ChatIdle

\* The handler of a service that starts without a history file: the
\* specification for what the completion-service calls do, on which the
\* stored history has no bearing.
SpecCalls == InitNoFile /\ [][Next]_vars

\* The same where every attempt of a completion-service call that has been
\* started comes back: generate_content returns or raises, and the sleep
\* between two attempts is finite. Requests need not keep arriving.
SpecLive ==
    /\ InitNoFile
    /\ [][Next]_vars
    /\ WF_vars(ChatGuardAttempt)
    /\ WF_vars(ChatAnalysisAttempt)
    /\ WF_vars(ChatResponseAttempt)

(***************************************************************************)
(* SpecGuard: scan_text_input called on any text, one call after another.  *)
(***************************************************************************)

InitGuard ==
    /\ StoreConstructed(DefaultMaxHistoryTurns, FileAbsent)
    /\ PolicyIdle
    /\ ChatIdle

\* scan_text_input(text_input) up to its completion-service call: the
\* rule-based check returns the unsafe verdict at once, or generate_text is
\* called.
GuardScanText ==
    /\ pc \in {"idle", "done"}
    /\ \E text_input \in GuardTexts :
         LET keyword == RuleBasedMatch(text_input)
         IN  /\ user_input_text' = text_input
             /\ guard_call' = "none"
             /\ attempt' = 0
             /\ IF keyword # None
                THEN /\ audit' = <<BlockedRecord("text", text_input,
                                     "Rule-based: detected '" \o keyword \o "'")>>
                     /\ is_input_safe' = FALSE
                     /\ guardrail_message' = RuleBasedMessage
                     /\ calls' = <<"scan_text_input">>
                     /\ pc' = "done"
                ELSE /\ audit' = <<>>
                     /\ is_input_safe' = TRUE
                     /\ guardrail_message' = ""
                     /\ calls' = <<"scan_text_input", "generate_text">>
                     /\ pc' = "guard"
    /\ UNCHANGED <<store_vars, store_book, policy_vars, turns, result,
                   uploaded_file, llm_history, context_summary, gemini_response,
                   action_message, validated, executed, appended>>

\* One attempt of the completion-service call of scan_text_input, and the
\* verdict the scan returns when the call has ended.
GuardScanAttempt ==
    /\ pc = "guard"
    /\ \E outcome \in AttemptOutcomes :
         LET ended == CallStep(attempt, outcome)
         IN  IF ended = "retry"
             THEN /\ attempt' = attempt + 1
                  /\ UNCHANGED <<pc, is_input_safe, guardrail_message,
                                 guard_call, audit>>
             ELSE /\ is_input_safe' = ScanTextVerdict(ended).safe
                  /\ guardrail_message' = ScanTextVerdict(ended).message
                  /\ audit' = audit \o ScanTextAudit(user_input_text, ended)
                  /\ guard_call' = ended
                  /\ attempt' = 0
                  /\ pc' = "done"
    /\ UNCHANGED <<store_vars, store_book, policy_vars, turns, result,
                   user_input_text, uploaded_file, llm_history, context_summary,
                   gemini_response, action_message, calls, validated, executed,
                   appended>>

NextGuard == GuardScanText \/ GuardScanAttempt

SpecGuard == InitGuard /\ [][NextGuard]_vars

(***************************************************************************)
(* Properties of the History Store (SpecStore)                             *)
(***************************************************************************)

\* phrase stands in text at place i.
PhraseAt(phrase, text, i) ==
    /\ i + Len(phrase) - 1 <= Len(text)
    /\ SubSeq(text, i, i + Len(phrase) - 1) = phrase

\* phrase stands somewhere in text.
Holds(phrase, text) == \E i \in 1..Len(text) : PhraseAt(phrase, text, i)

\* The last k entries of seq.
LastK(seq, k) == SubSeq(seq, Len(seq) - k + 1, Len(seq))

\* C5: for every max_history_turns N >= 0 and every initially loaded
\* history, once at least one add_message has completed (clear_history
\* calls may be mixed in), get_full_history holds at most N entries.
C5_HistoryLengthInvariant ==
    adds >= 1 => Len(GetFullHistory) <= max_history_turns

\* The same bound for max_history_turns >= 1, where the slice
\* conversation_history[-max_history_turns:] keeps the last N entries.
HistoryLengthInvariantPositiveN ==
    (adds >= 1 /\ max_history_turns >= 1)
        => Len(GetFullHistory) <= max_history_turns

\* C6: the k entries appended one at a time to an empty store leave exactly
\* the last min(k, N) of them, in the order they were appended.
C6_AppendKeepsLastN ==
    from_empty =>
        GetFullHistory = LastK(log, Min(Len(log), max_history_turns))

\* The same for max_history_turns >= 1.
AppendKeepsLastNPositiveN ==
    (from_empty /\ max_history_turns >= 1)
        => GetFullHistory = LastK(log, Min(Len(log), max_history_turns))

\* This step is a clear_history that directly follows a clear_history.
SecondClear == last_op = "clear" /\ last_op' = "clear" /\ ops' = ops + 1

SavedAdd == last_op' = "add" /\ ops' = ops + 1 /\ last_save' = "ok"

\* The entry that the add_message of this step appends.
Added == log'[Len(log')]

\* C20 as stated: add_message writes the full updated sequence and only
\* then trims it: the file holds the sequence with the new entry, untrimmed.
C20_PersistThenTrim ==
    [][SavedAdd =>
          history_file' = FileJson(Append(conversation_history, Added))]_vars

\* C20 amended: add_message trims first and then writes the whole of what
\* it kept: after the write the file holds exactly conversation_history, the
\* new entry last, and for max_history_turns >= 1 never more than
\* max_history_turns entries.
C20_TrimThenPersist ==
    [][SavedAdd =>
          /\ history_file' = FileJson(conversation_history')
          /\ history_file'.data =
                 AddMessage(conversation_history, max_history_turns,
                            Added.role, Added.content)
          /\ history_file'.data[Len(history_file'.data)] = Added
          /\ max_history_turns >= 1 =>
                 Len(history_file'.data) <= max_history_turns]_vars

\* An add_message has trimmed the history and written the file, which
\* holds several entries.
C20_Witness ==
    /\ last_op = "add"
    /\ last_save = "ok"
    /\ max_history_turns >= 2
    /\ Len(log) > max_history_turns
    /\ Len(conversation_history) = max_history_turns
    /\ history_file = FileJson(conversation_history)

(***************************************************************************)
(* Properties of validate_action (SpecPolicy)                              *)
(***************************************************************************)

\* C8: a request whose type is not none, web_search, save_data or
\* schedule_meeting (or that has no type) is returned invalid, whatever its
\* payload, present, empty or absent; validate_action does not raise on it.
C8_UnknownTypeInvalid ==
    (validation # NoVerdict /\ Get(action_data, "action") \notin KnownActions)
        => (~validation.raised /\ ~validation.valid)

\* validate_action has answered a request without a type and without payload.
C8_Witness ==
    /\ validation # NoVerdict
    /\ action_data = Request(None, None, "")
    /\ ~validation.valid

\* C9: a request of type none is returned valid, whatever payload fields it
\* carries.
C9_NoneAlwaysValid ==
    (validation # NoVerdict /\ Get(action_data, "action") = "none")
        => (~validation.raised /\ validation.valid)

\* validate_action has answered a none request that carries a payload which
\* the web_search deny list names.
C9_Witness ==
    /\ validation # NoVerdict
    /\ action_data = Request("none", "query", "Illegal Drugs online")
    /\ validation.valid


\* The phrases that make a request of the type unsafe.
OwnDenyList(type) ==
    CASE type = "web_search" ->
           {"illegal drugs", "violent acts", "child exploitation",
            "harmful chemicals", "delete", "format"}
      [] type = "save_data" ->
           {"credit card numbers", "ssn", "passwords of others"}
      [] type = "schedule_meeting" -> {"bomb threat", "illegal gathering"}
      [] OTHER -> {}

\* C13: for a request of a known type with a non-empty payload,
\* validate_action returns a verdict, and the verdict is invalid exactly
\* when the lower-cased payload holds a phrase of the deny list of the
\* request's own type; a phrase of another type's list alone leaves the
\* request valid.
C13_OwnDenyListOnly ==
    (/\ validation # NoVerdict
     /\ Get(action_data, "action") \in KnownActions
     /\ DetailsOf(action_data) # None)
        => /\ ~validation.raised
           /\ (~validation.valid) =
                  (\E phrase \in OwnDenyList(action_data["action"]) :
                       Holds(phrase, Lower(DetailsOf(action_data))))

\* validate_action has let through a save_data request whose payload holds
\* "format", a phrase of the web_search list only.
C13_Witness ==
    /\ validation # NoVerdict
    /\ action_data = Request("save_data", "data", "how to format a disk")
    /\ validation.valid

\* validate_action has refused a web_search request over "format".
C13_WitnessRefused ==
    /\ validation # NoVerdict
    /\ action_data = Request("web_search", "query", "how to format a disk")
    /\ ~validation.valid

(***************************************************************************)
(* Properties of the Content Guardrail                                     *)
(***************************************************************************)

\* text holds the phrase in some letter case.
HoldsPhrase(phrase, text) == Contains(Lower(phrase), Lower(text))

\* A scan, or the turn that started it, made a completion-service call.
ServiceCalled ==
    \E i \in 1..Len(calls) : calls[i] \in {"generate_text", "generate_vision_response"}

\* C1 (SpecGuard): for every entry of malicious_keywords and every text that
\* holds it in any letter case, scan_text_input returns unsafe and makes no
\* completion-service call.
C1_BlockListNoServiceCall ==
    \A i \in 1..Len(malicious_keywords) :
        (pc # "idle" /\ HoldsPhrase(malicious_keywords[i], user_input_text))
            => (pc = "done" /\ ~is_input_safe /\ ~ServiceCalled)

\* The same for the entries of malicious_keywords that are written in lower
\* case, which are all but "Hacking".
BlockListLowerCaseEntries ==
    \A i \in 1..Len(malicious_keywords) :
        (/\ pc # "idle"
         /\ malicious_keywords[i] = Lower(malicious_keywords[i])
         /\ HoldsPhrase(malicious_keywords[i], user_input_text))
            => (pc = "done" /\ ~is_input_safe /\ ~ServiceCalled)

\* C2 (Spec): a turn with an image whose caption holds a block-listed phrase
\* gets the unsafe verdict from the rule-based check, with no
\* completion-service call.
C2_ImageCaptionBlockList ==
    (/\ pc # "idle"
     /\ IsImageTurn(uploaded_file)
     /\ \E i \in 1..Len(malicious_keywords) :
            HoldsPhrase(malicious_keywords[i], user_input_text))
        => (pc = "done" /\ ~is_input_safe /\ ~ServiceCalled)

SafeMessages == {"Text input is safe.", "Image input is safe."}

\* The handler is in, or has been through, the content analysis.
AnalysisStarted ==
    \E i \in 1..Len(calls) : calls[i] \in {"analyze_text", "analyze_image_from_bytes"}

\* C3 (Spec): fail-closed. A scan returns safe only when its
\* completion-service call returned; when the call ended in a safety
\* rejection or any other failure the verdict is unsafe and the turn ends
\* blocked; no turn enters content analysis unless that call returned.
C3_FailClosed ==
    /\ guardrail_message \in SafeMessages => guard_call = "return"
    /\ guard_call \in {"blocked", "failed"} =>
           (~is_input_safe /\ pc = "done" /\ ~AnalysisStarted)
    /\ (pc \in {"analyze", "respond"} \/ AnalysisStarted) =>
           (guard_call = "return" /\ is_input_safe)

\* The guardrail call of a text turn failed on all its attempts and the
\* turn ended blocked.
C3_Witness ==
    /\ guard_call = "failed"
    /\ ~IsImageTurn(uploaded_file)
    /\ ~is_input_safe
    /\ pc = "done"

\* _log_blocked_content has written a record of the block of this input:
\* its input type, a preview of at most 100 characters, and a reason.
Audited ==
    \E i \in 1..Len(audit) :
        /\ audit[i].type = (IF IsImageTurn(uploaded_file) THEN "image" ELSE "text")
        /\ Len(audit[i].content) <= 100
        /\ (IsImageTurn(uploaded_file)
              \/ audit[i].content = Prefix(user_input_text, 100))
        /\ audit[i].reason # ""

\* C18 (Spec): every unsafe verdict of the guardrail, whether from a
\* keyword, from a safety rejection of the completion service or from a
\* failure of its call, comes with an audit record that carries the input
\* type, a truncated preview of the content and a reason.
C18_UnsafeVerdictAudited == ~is_input_safe => Audited

\* The same for the unsafe verdicts that do not come from a failed call.
UnsafeVerdictAuditedUnlessCallFailed ==
    (~is_input_safe /\ guard_call # "failed") => Audited

(***************************************************************************)
(* Properties of the Turn Orchestrator (Spec)                              *)
(***************************************************************************)

\* The first place of `name` in calls, 0 when it is not called.
FirstCall(name) ==
    IF \E i \in 1..Len(calls) : calls[i] = name
    THEN CHOOSE i \in 1..Len(calls) :
             calls[i] = name /\ \A j \in 1..(i - 1) : calls[j] # name
    ELSE 0

\* C4: execute_action is called only after validate_action, in the same
\* turn, returned a valid verdict for the very request that is executed.
C4_ExecuteOnlyValidated ==
    /\ (FirstCall("execute_action") # 0) = (executed # <<>>)
    /\ executed # <<>> =>
           /\ FirstCall("validate_action") # 0
           /\ FirstCall("validate_action") < FirstCall("execute_action")
           /\ validated = executed
           /\ action_data = executed[1]
           /\ ~validation.raised
           /\ validation.valid

\* A turn has executed a web search that validate_action let through.
C4_Witness ==
    /\ executed # <<>>
    /\ executed[1]["action"] = "web_search"
    /\ pc = "respond"

\* The methods a blocked turn must not reach.
AfterGuardrail ==
    {"analyze_text", "analyze_image_from_bytes", "determine_action",
     "validate_action", "execute_action", "generate_response"}

\* C10: a turn with an unsafe guardrail verdict ends at once: exactly two
\* entries are appended (the user's text, or the image label when there is
\* no text, then the guardrail message), the reply carries the message, and
\* there is no content analysis, action derivation, validation, execution
\* or response generation.
C10_BlockedShortCircuit ==
    ~is_input_safe =>
        /\ pc = "done"
        /\ appended =
             << Entry("user",
                      IF user_input_text # "" THEN user_input_text
                      ELSE "[Image: " \o uploaded_file.filename \o "]"),
                Entry("model", "[Guardrail]: " \o guardrail_message) >>
        /\ LastK(conversation_history, 2) = appended
        /\ result = ReplyResult("System: " \o guardrail_message, conversation_history)
        /\ guardrail_message \notin SafeMessages /\ guardrail_message # ""
        /\ \A i \in 1..Len(calls) : calls[i] \notin AfterGuardrail
        /\ validated = <<>>
        /\ executed = <<>>
        /\ validation = NoVerdict

\* A turn with an image and no text was blocked by the guardrail over a
\* full history.
C10_Witness ==
    /\ ~is_input_safe
    /\ IsImageTurn(uploaded_file)
    /\ user_input_text = ""
    /\ Len(conversation_history) = DefaultMaxHistoryTurns
    /\ pc = "done"

\* validate_action returned (False, message) for the action of this turn.
Rejected == validation # NoVerdict /\ ~validation.raised /\ ~validation.valid

\* The marker of the notice of a blocked action.
BlockedMarker == "[ACTION BLOCKED]: "

\* C11: when validate_action rejects the derived action the turn goes on:
\* execute_action is not called, the notice says the action was blocked,
\* the user and analysis entries are in History, generate_response is
\* called; when its call returns, the reply is appended to History and
\* returned with the notice, and the only error the turn can still end in is
\* that of the completion-service call of generate_response.
C11_RejectionDoesNotAbort ==
    Rejected =>
        /\ executed = <<>>
        /\ FirstCall("execute_action") = 0
        /\ Prefix(action_message, Len(BlockedMarker)) = BlockedMarker
        /\ action_message = BlockedMarker \o validation.message
        /\ Len(appended) >= 2
        /\ appended[1].role = "user"
        /\ appended[2] = Entry("model", gemini_response)
        /\ FirstCall("generate_response") # 0
        /\ pc \in {"respond", "done"}
        /\ pc = "respond" =>
               (Len(appended) = 2 /\ LastK(conversation_history, 2) = appended)
        /\ pc = "done" =>
               \/ /\ result.status = 200
                  /\ Len(appended) = 3
                  /\ appended[3].role = "model"
                  /\ LastK(conversation_history, 3) = appended
                  /\ result.history = conversation_history
                  /\ result.response =
                         gemini_response \o "\n\n" \o action_message
                            \o "\n\nGemini: " \o appended[3].content
               \/ /\ result.status = 500
                  /\ result.error \in {BlockedDetail, FailedDetail}
                  /\ LastK(conversation_history, 2) = appended

\* A turn whose web search was rejected has returned its reply.
C11_Witness ==
    /\ Rejected
    /\ action_data["action"] = "web_search"
    /\ pc = "done"
    /\ result.status = 200
    /\ Len(appended) = 3

\* The turn received last has no text left after strip() and no image of an
\* allowed type.
NoInput == pc # "idle" /\ user_input_text = "" /\ ~IsImageTurn(uploaded_file)

\* The error that chat returns for such a turn.
InputError == ErrorResult(400, "No text or image input provided.")

\* This step receives a turn.
Receives == turns' = turns + 1

\* C14: a turn with neither text nor image ends at once with the input
\* error, status 400, and only such a turn does: neither scan is called, no
\* completion-service call is made, nothing is appended or logged, and the
\* step leaves conversation_history and the history file as they were.
C14_NoInputRejected ==
    /\ [](NoInput =>
            /\ pc = "done"
            /\ result = InputError
            /\ calls = <<"get_context_for_llm">>
            /\ ~ServiceCalled
            /\ appended = <<>>
            /\ audit = <<>>)
    /\ [](result.status = 400 => NoInput)
    /\ [][(Receives /\ NoInput') =>
            /\ conversation_history' = conversation_history
            /\ history_file' = history_file]_vars

\* A turn with blank text and a file that is no image was rejected over a
\* history that holds entries.
C14_Witness ==
    /\ result = InputError
    /\ uploaded_file = Upload("notes.exe")
    /\ conversation_history # <<>>
    /\ history_file = FileJson(conversation_history)

\* The turn passed the guardrail and ended without the reply of
\* generate_response: a step from the content analysis on has failed.
Aborted == pc = "done" /\ AnalysisStarted /\ Len(appended) < 3

\* C15: a turn in which a step from the content analysis through the
\* response generation fails ends with status 500, an error and no reply.
\* Nothing is rolled back: when the analysis failed, no add_message was
\* called and History is what it was when the turn came in; when a later
\* step failed, the user and analysis entries are the last two of History,
\* and the file holds them when the last write succeeded. The failing
\* completion-service call itself changes neither History nor the file.
C15_AbortKeepsAppended ==
    /\ [](Aborted =>
            /\ result.status = 500
            /\ result.error # ""
            /\ result.response = ""
            /\ result.history = <<>>
            /\ FirstCall("add_message") = 0 =>
                   /\ appended = <<>>
                   /\ conversation_history = llm_history
            /\ FirstCall("add_message") # 0 =>
                   /\ Len(appended) = 2
                   /\ appended[1].role = "user"
                   /\ appended[2] = Entry("model", gemini_response)
                   /\ LastK(conversation_history, 2) = appended
                   /\ last_save = "ok" =>
                          history_file = FileJson(conversation_history))
    /\ [](result.status = 500 => Aborted)
    /\ [][(Aborted' /\ ~Aborted /\ appended' = appended) =>
            /\ conversation_history' = conversation_history
            /\ history_file' = history_file]_vars

\* The call of generate_response failed on all its attempts after the user
\* and analysis entries were written to the file.
C15_Witness ==
    /\ Aborted
    /\ result = ErrorResult(500, FailedDetail)
    /\ Len(appended) = 2
    /\ FirstCall("generate_response") # 0
    /\ history_file = FileJson(conversation_history)
    /\ LastK(history_file.data, 2) = appended

\* str(e) of the exceptions that can reach the except branch of chat.
FailureDetails ==
    {BlockedDetail, FailedDetail,
     "'NoneType' object has no attribute 'lower'",
     "'NoneType' object is not subscriptable"}

\* C16: the body of an error result is opaque: whatever the detail of the
\* failure that ended the turn, the body returned is the one chat returns
\* for every other failure detail, so the body tells the caller nothing of
\* the failure.
C16_OpaqueErrorBody ==
    \A detail \in FailureDetails :
        result.status = 500 => result.error = ErrorResult(500, detail).error

\* What the code does instead: the body of a status 500 result is the text
\* of the exception itself.
ErrorBodyIsDetail ==
    result.status = 500 => result.error \in FailureDetails

\* The add_message calls of the turn so far.
AddMessageCalls == Cardinality({ i \in 1..Len(calls) : calls[i] = "add_message" })

\* C19 as stated: a turn appends at most two entries to History, whichever
\* path it takes.
C19_AtMostTwoEntries ==
    /\ Len(appended) <= 2
    /\ AddMessageCalls <= 2

\* C19 amended: a turn appends at most three entries to History: none when
\* it ends with the input error or its analysis fails, two when the
\* guardrail blocks it or a step after the analysis fails, three (user,
\* analysis, reply) when it returns its reply.
C19_AtMostThreeEntries ==
    /\ Len(appended) <= 3
    /\ AddMessageCalls = Len(appended)
    /\ result.status = 400 => Len(appended) = 0
    /\ ~is_input_safe => Len(appended) = 2
    /\ result.status = 500 => Len(appended) \in {0, 2}
    /\ (result.status = 200 /\ is_input_safe) => Len(appended) = 3
    /\ pc # "idle" =>
           LET all == llm_history \o appended
           IN  conversation_history =
                   LastK(all, Min(Len(all), max_history_turns))

\* A turn has returned its reply after appending the user entry, the
\* analysis and the reply.
C19_Witness ==
    /\ pc = "done"
    /\ result.status = 200
    /\ is_input_safe
    /\ Len(appended) = 3
    /\ appended[3] = Entry("model", "Sure.")

\* An add_message or clear_history call has completed and its write of the
\* file succeeded.
SavedOp == last_op \in {"add", "clear"} /\ last_save = "ok"

\* C28: after every completed add_message or clear_history whose write
\* succeeded the file holds exactly the in-memory history, which is already
\* trimmed to at most max_history_turns entries, and a restart at that
\* point loads the sequence get_full_history returned.
C28_FileMirrorsMemory ==
    /\ [](SavedOp =>
            /\ history_file = FileJson(GetFullHistory)
            /\ Len(GetFullHistory) <= max_history_turns)
    /\ [][SavedOp /\ last_op' = "init" =>
            conversation_history' = GetFullHistory]_vars

\* What holds instead: the file holds the in-memory history and a restart
\* loads it, for every max_history_turns; the history is within the bound
\* when max_history_turns is at least 1.
FileMirrorsMemory ==
    /\ [](SavedOp =>
            /\ history_file = FileJson(GetFullHistory)
            /\ max_history_turns >= 1 =>
                  Len(GetFullHistory) <= max_history_turns)
    /\ [][SavedOp /\ last_op' = "init" =>
            conversation_history' = GetFullHistory]_vars

(***************************************************************************)
(* Properties of the History Store under concurrent calls (SpecConc)       *)
(***************************************************************************)

\* Every call has returned.
AllReturned == \A t \in Threads : threads.run[t].pc = "done"

\* The orders in which the calls can run one after another.
Orders == { order \in [1..Cardinality(Threads) -> Threads] :
              \A i, j \in 1..Cardinality(Threads) : i # j => order[i] # order[j] }

\* History after the call of thread t has run alone on history.
RunAlone(history, t) ==
    IF ThreadCalls[t].op = "add_message"
    THEN AddMessage(history, max_history_turns,
                    ThreadCalls[t].role, ThreadCalls[t].content)
    ELSE ClearHistory(history)

RECURSIVE RunInOrder(_, _)
\* History after the calls have run alone, one after another, in the order.
RunInOrder(history, order) ==
    IF order = <<>> THEN history
    ELSE RunInOrder(RunAlone(history, Head(order)), Tail(order))

\* C17: access to the History Store is serialized: when the calls that ran
\* side by side have all returned, conversation_history is what some
\* one-after-another order of the same calls leaves, so an entry of a
\* completed add_message is gone only when a later clear_history or the
\* trim to the last N removed it.
C17_SerializedAccess ==
    AllReturned =>
        \E order \in Orders :
            conversation_history = RunInOrder(threads.loaded, order)

\* The store was constructed over a history within the bound.
LoadedWithinBound == Len(threads.loaded) <= max_history_turns

\* C27: under concurrent calls the length bound holds in every observable
\* state: a /get_history read that falls between the statements of a
\* running add_message never returns more than max_history_turns entries.
C27_ReadWithinBound ==
    LoadedWithinBound => Len(result.history) <= max_history_turns

\* What holds instead: a read returns at most one entry more than the
\* bound for each add_message that has appended and not yet trimmed.
ReadWithinBoundPlusRunning ==
    LoadedWithinBound =>
        Len(result.history) <= max_history_turns
            + Cardinality({ t \in Threads : ThreadCalls[t].op = "add_message" })

(***************************************************************************)
(* Properties of determine_action (SpecDerive)                             *)
(***************************************************************************)

WebSearchMarker == "search the web for"

\* The marker stands in text at place i.
MarkerAt(text, i) == PhraseAt(WebSearchMarker, text, i)

RECURSIVE Blanks(_)
\* A run of k blanks.
Blanks(k) == IF k = 0 THEN "" ELSE " " \o Blanks(k - 1)

\* text has no blank at either end.
Trimmed(text) ==
    text = "" \/ (SubSeq(text, 1, 1) # " " /\ SubSeq(text, Len(text), Len(text)) # " ")

\* C12: determine_action always returns a request, and the request is that
\* of the first rule, in the order web_search, save_data, schedule_meeting,
\* whose phrases the lower-cased summary holds, none when it holds no
\* rule's phrases. The web_search payload is the lower-cased text after the
\* first occurrence of the marker, without the blanks around it; the
\* save_data and schedule_meeting payloads are the summary itself. Every
\* part of the request is fixed by the summary, so one summary has one
\* request.
C12_DetermineActionFirstMatch ==
    pc = "done" =>
        LET lowered == Lower(context_summary)
            web == Holds(WebSearchMarker, lowered)
            save == Holds("save this information", lowered)
            meet == Holds("schedule", lowered) /\ Holds("meeting", lowered)
            type == action_data["action"]
        IN  /\ type \in {"web_search", "save_data", "schedule_meeting", "none"}
            /\ (type = "web_search") = web
            /\ (type = "save_data") = (save /\ ~web)
            /\ (type = "schedule_meeting") = (meet /\ ~save /\ ~web)
            /\ (type = "none") = (~meet /\ ~save /\ ~web)
            /\ type = "web_search" =>
                   /\ DOMAIN action_data = {"action", "query"}
                   /\ Trimmed(action_data["query"])
                   /\ \E i \in 1..Len(lowered) :
                          /\ MarkerAt(lowered, i)
                          /\ \A j \in 1..(i - 1) : ~MarkerAt(lowered, j)
                          /\ \E before, after \in 0..Len(lowered) :
                                 SubSeq(lowered, i + Len(WebSearchMarker), Len(lowered))
                                    = Blanks(before) \o action_data["query"]
                                         \o Blanks(after)
            /\ type = "save_data" =>
                   action_data = [action |-> "save_data", data |-> context_summary]
            /\ type = "schedule_meeting" =>
                   action_data = [action |-> "schedule_meeting",
                                  details |-> context_summary]
            /\ type = "none" => action_data = [action |-> "none"]

\* determine_action has answered a summary that holds the phrases of all
\* three rules, the marker of web_search last and twice.
C12_Witness ==
    /\ pc = "done"
    /\ context_summary =
           "Text analysis: save this information: search the web for a meeting schedule"
    /\ action_data = [action |-> "web_search", query |-> "a meeting schedule"]


(***************************************************************************)
(* Loading the history and starting the process                            *)
(***************************************************************************)

\* The item lacks 'role' or lacks 'content'.
MissesKey(item) == ~({"role", "content"} \subseteq DOMAIN item)

\* The file holds a JSON list none of whose items lacks 'role' or 'content'.
StoredWellFormed ==
    /\ history_file.kind = "json"
    /\ ~\E i \in 1..Len(history_file.data) : MissesKey(history_file.data[i])

\* C21: loading the history never fails: the construction of the store
\* always goes on to the next statement of main.py, with an empty history
\* when the file is absent, unreadable, no valid JSON, no list, or holds an
\* item without both 'role' and 'content', and with exactly the stored
\* sequence otherwise.
C21_LoadNeverFails ==
    [][pc = "import" =>
         /\ pc' = "main"
         /\ last_op' = "init"
         /\ conversation_history' =
                IF StoredWellFormed THEN history_file.data ELSE <<>>]_vars

\* C21 witness: the store has been constructed over a list whose second
\* item has no 'content', and it starts empty.
C21_Witness ==
    /\ last_op = "init"
    /\ history_file.kind = "json"
    /\ Len(history_file.data) = 2
    /\ history_file.data[1] = Entry("user", "x")
    /\ history_file.data[2] = [role |-> "user"]
    /\ conversation_history = <<>>

\* C22: when the history file is absent as the __main__ block starts, the
\* block completes (the service runs) and leaves the file holding [].
C22_AbsentFileBootstrapped ==
    [][pc = "main" /\ history_file = FileAbsent =>
         pc' = "idle" /\ history_file' = FileJson(<<>>)]_vars

\* What holds instead: the block ends the process whenever the file is
\* absent, and the file it leaves is absent still or empty, which loads as
\* an empty history at the next start.
AbsentFileEndsStartup ==
    [][pc = "main" /\ history_file = FileAbsent =>
         /\ pc' = "crashed"
         /\ history_file' \in {FileAbsent, FileCorrupt}
         /\ LoadHistory(history_file') = <<>>]_vars


(***************************************************************************)
(* The retry loop of the completion-service call                           *)
(***************************************************************************)

\* The handler is inside a completion-service call.
InCall == pc \in {"guard", "analyze", "respond"}

\* The turn ended in the except branch of chat with the error of the
\* exhausted retry loop.
AbortedExhausted == pc = "done" /\ result = ErrorResult(500, FailedDetail)

\* C23: a completion-service call makes at most three attempts (the loop
\* index never passes 2); every step of a call is one attempt, after which
\* the call either goes on to the next attempt or has ended; the third
\* attempt always ends the call; the call fails for exhaustion only on its
\* third attempt, and in content analysis or response generation that
\* failure ends the turn with the status 500 result.
C23_AtMostThreeAttempts ==
    /\ [](attempt \in 0..(retries - 1))
    /\ [][InCall =>
            \/ pc' = pc /\ attempt' = attempt + 1 /\ result' = result
            \/ pc' # pc /\ attempt' = 0]_vars
    /\ [][InCall /\ attempt = retries - 1 => pc' # pc]_vars
    /\ [][guard_call # "failed" /\ guard_call' = "failed" =>
            pc = "guard" /\ attempt = retries - 1]_vars
    /\ [][~AbortedExhausted /\ AbortedExhausted' =>
            pc \in {"analyze", "respond"} /\ attempt = retries - 1]_vars

\* C23 witness: a turn whose response generation failed three times in a
\* row has ended with the status 500 result of the exhausted loop.
C23_Witness ==
    /\ AbortedExhausted
    /\ Len(appended) = 2
    /\ calls[Len(calls)] = "generate_text"

\* The verdict of the scan names the safety filters.
FiltersMessage == Holds("blocked by safety filters", guardrail_message)
\* The verdict of the scan is the one of the handler of other exceptions.
InternalErrorMessage == Holds("An internal error occurred", guardrail_message)

\* C24: a safety rejection stays apart from a transport failure. The scan
\* whose call was rejected, on whichever attempt, ends with that attempt:
\* the verdict is unsafe, its message names the safety filters and is not
\* the internal-error message, and the turn ends blocked. The scan whose
\* call ran out of attempts returns the internal-error message instead.
C24_RejectionNotRetried ==
    /\ [][pc = "guard" /\ guard_call' = "blocked" =>
            /\ pc' = "done"
            /\ ~is_input_safe'
            /\ FiltersMessage' /\ ~InternalErrorMessage'
            /\ audit' # <<>>]_vars
    /\ [](guard_call = "blocked" => FiltersMessage /\ ~InternalErrorMessage)
    /\ [](guard_call = "failed" => InternalErrorMessage /\ ~FiltersMessage)

\* C24 witness: the scan of a text ended in a safety rejection and the turn
\* returned the message of the safety filters.
C24_Witness ==
    /\ guard_call = "blocked"
    /\ ~IsImageTurn(uploaded_file)
    /\ ~is_input_safe
    /\ guardrail_message =
          "Your request was blocked by safety filters. Please try a different query."
    /\ pc = "done"
    /\ result.status = 200


(***************************************************************************)
(* The action step of a turn                                               *)
(***************************************************************************)

\* The turn has passed the guardrail and the content analysis: chat has
\* called determine_action and validate_action.
ActionStepTaken == FirstCall("validate_action") # 0

\* The execute_action calls of the turn so far.
ExecuteActionCalls ==
    Cardinality({ i \in 1..Len(calls) : calls[i] = "execute_action" })

\* The three outcomes of the action step, as chat records them.
OutcomeBlocked == Prefix(action_message, Len(BlockedMarker)) = BlockedMarker
OutcomeExecuted == ExecuteActionCalls = 1 /\ Len(executed) = 1
OutcomeSkipped == action_message = "[ACTION]: No specific action determined."

\* Exactly one of the three outcomes, each in its own case, and
\* execute_action only on the three executable types.
OneActionOutcome ==
    /\ Cardinality({ o \in {"blocked", "executed", "skipped"} :
                       \/ o = "blocked" /\ OutcomeBlocked
                       \/ o = "executed" /\ OutcomeExecuted
                       \/ o = "skipped" /\ OutcomeSkipped }) = 1
    /\ OutcomeBlocked = Rejected
    /\ OutcomeExecuted =
          (~validation.raised /\ validation.valid /\ action_data["action"] # "none")
    /\ OutcomeSkipped = (action_data["action"] = "none")
    /\ ExecuteActionCalls <= 1
    /\ \A i \in 1..Len(executed) :
          executed[i]["action"] \in {"web_search", "save_data", "schedule_meeting"}

\* C25: in every turn that passed the guardrail and the content analysis
\* exactly one of the outcomes blocked, executed, skipped has occurred once
\* the action step is over: blocked if and only if validate_action returned
\* invalid, executed (execute_action called exactly once) if and only if it
\* returned valid for a type other than none, skipped if and only if the
\* type is none; execute_action is never called with a type outside
\* web_search, save_data, schedule_meeting.
C25_ExactlyOneActionOutcome == ActionStepTaken => OneActionOutcome

\* What holds instead: the same, for the turns in which validate_action
\* returned; the turn in which it raised has none of the three outcomes.
OneActionOutcomeUnlessRaised ==
    ActionStepTaken =>
        IF validation.raised
        THEN ~OutcomeBlocked /\ ~OutcomeExecuted /\ ~OutcomeSkipped
             /\ executed = <<>> /\ pc = "done" /\ result.status = 500
        ELSE OneActionOutcome

\* C26: validate_action returns a verdict and never raises for the request
\* determine_action produced, a web_search with an empty query included,
\* and the turn goes on to response generation.
C26_ValidateNeverRaises ==
    ActionStepTaken =>
        /\ ~validation.raised
        /\ FirstCall("generate_response") # 0

\* What holds instead: validate_action raises exactly for the web_search
\* whose query is empty, and that turn ends in the except branch of chat
\* without reaching response generation.
ValidateRaisesOnEmptyWebSearch ==
    ActionStepTaken =>
        /\ validation.raised =
              (action_data["action"] = "web_search" /\ action_data["query"] = "")
        /\ validation.raised =>
              /\ pc = "done"
              /\ result = ErrorResult(500, "'NoneType' object has no attribute 'lower'")
              /\ FirstCall("generate_response") = 0
        /\ ~validation.raised => FirstCall("generate_response") # 0


(***************************************************************************)
(* Termination of a turn (SpecLive)                                        *)
(***************************************************************************)

\* The kinds of result the turn has returned: the input error, the
\* response of a guardrail block, the full reply, the internal error.
ResultKinds ==
    { kind \in {"input_error", "blocked", "reply", "internal_error"} :
        \/ kind = "input_error" /\ result = InputError
        \/ kind = "blocked" /\ ~is_input_safe /\ result.status = 200
                             /\ result.response = "System: " \o guardrail_message
        \/ kind = "reply" /\ is_input_safe /\ result.status = 200
                           /\ Len(appended) = 3
                           /\ result.history = GetFullHistory
        \/ kind = "internal_error" /\ result.status = 500
                                    /\ result.error \in FailureDetails }

\* C29: every turn terminates. When every attempt of a completion-service
\* call comes back, a turn that is inside one of its calls eventually
\* returns; while it is inside a call it has returned nothing, and what it
\* has returned at the end is exactly one of the four kinds of result.
C29_TurnTerminates ==
    /\ InCall ~> pc = "done"
    /\ [](InCall => result = NoResult)
    /\ [](pc = "done" => Cardinality(ResultKinds) = 1)

\* C29 witness: a turn has gone through its three completion-service calls
\* and returned the full reply.
C29_Witness ==
    /\ pc = "done"
    /\ ResultKinds = {"reply"}
    /\ calls[Len(calls)] = "get_full_history"

=============================================================================
